---- MODULE Spec2Model ----
(***************************************************************************)
(* State-machine model of server.js: the POST /merge handler, the remote   *)
(* fetcher downloadToTemp, the ffmpeg invocation and dropboxUpload          *)
(* (single-shot and session-based chunked transfer).                        *)
(*                                                                          *)
(* One invocation of the handler is followed from the arrival of the       *)
(* request to the response.  The handler is suspended at every await; each *)
(* action below is the synchronous code that runs between two awaits.      *)
(* Sizes and offsets are counted in bytes.  The bytes a call carries are   *)
(* written as the half-open range <<from, to>> of the local file they were *)
(* read from.                                                              *)
(***************************************************************************)
EXTENDS Integers, Sequences, FiniteSets, TLC

(***************************************************************************)
(* Program constants                                                       *)
(***************************************************************************)
\* const CHUNK = 8 * 1024 * 1024
CHUNK == 8 * 1024 * 1024

\* the literal of `if (size <= 150 * 1024 * 1024)`
UPLOAD_LIMIT == 150 * 1024 * 1024

(***************************************************************************)
(* Bounds of the model                                                     *)
(***************************************************************************)
\* how many whole chunks the largest merged file lies above the smallest
\* chunked sizes
MaxExtraChunks == 1

\* how many invocations of the handler run concurrently
NumInv == 2

\* how many outbound calls a run with a cut file is followed for
MaxCalls == 30

(***************************************************************************)
(* Values                                                                  *)
(***************************************************************************)
\* a field absent from the JSON body
NoValue == "undefined"

\* JavaScript falsiness of a string-valued field
Falsy(v) == v \in {NoValue, ""}

Min(a, b) == IF a <= b THEN a ELSE b

Max(a, b) == IF a >= b THEN a ELSE b

PlainUrl == "https://cdn.example.com/media"

SharedUrl == "https://www.dropbox.com/s/k/media?dl=0"

SharedUrlDirect == "https://www.dropbox.com/s/k/media?dl=1"

\* what files/get_temporary_link answers for a path
TempLink(p) == "https://dl.dropboxusercontent.com/apitl" \o p

\* new URL(url).hostname
Hostname(url) ==
    IF url \in {SharedUrl, SharedUrlDirect} THEN "www.dropbox.com"
    ELSE IF url = PlainUrl THEN "cdn.example.com"
    ELSE "dl.dropboxusercontent.com"

isDropboxSharedLink(url) ==
    Hostname(url) \in {"dropbox.com", "www.dropbox.com", "db.tt"}

\* searchParams.set('dl','1') / append('dl','1')
toDirectDownload(url) ==
    IF url \in {SharedUrl, SharedUrlDirect} THEN SharedUrlDirect
    ELSE url \o "?dl=1"

\* the file sizes the merge may produce
Sizes ==
    {0, 1, CHUNK, UPLOAD_LIMIT - 1, UPLOAD_LIMIT}
    \cup { UPLOAD_LIMIT + d + k * CHUNK :
             d \in {1, 2 * 1024 * 1024 - 1, 2 * 1024 * 1024, 2 * 1024 * 1024 + 1},
             k \in 0..MaxExtraChunks }

\* request bodies
Bodies ==
    [ audio_url        : {NoValue, PlainUrl, SharedUrl},
      audio_path       : {NoValue, "/a.mp3"},
      video_url        : {NoValue, PlainUrl},
      video_path       : {NoValue, "/b.mp4"},
      out_path         : {NoValue, "", "/out.mp4"},
      audio_offset_sec : {-2, 0, 3} ]

NoBody ==
    [ audio_url |-> NoValue, audio_path |-> NoValue, video_url |-> NoValue,
      video_path |-> NoValue, out_path |-> NoValue, audio_offset_sec |-> 0 ]

\* messages of rejected network calls
NetErrors == {"Request failed with status code 409", "Network Error"}

\* messages of a failing fs.readSync
FsErrors == {"EIO: i/o error, read"}

\* messages of the merge engine's error event
FfmpegErrors == {"ffmpeg exited with code 1"}

\* session ids the provider hands out
SessionIds == {"sid-A", "sid-B"}

\* Date.now() - start, in milliseconds
ElapsedMs == {0, 499, 1500}

\* a staged file name: the random part and the suffix
NoFile == <<0, "">>

\* the metadata the provider answers for a created object
ProviderMetas(dest, sz) ==
    { [ id |-> "id:1", name |-> "out.mp4", path_display |-> pd, size |-> sz ] :
        pd \in {dest, "/Out.mp4"} }

VARIABLES
    token,        \* DROPBOX_TOKEN is set
    pc,           \* the await the handler is suspended at
    req,          \* req.body
    stage,        \* the asset downloadToTemp is fetching
    outFile,      \* downloadToTemp's local outFile
    audioTmp, videoTmp, outTmp,
    cmd,          \* the ffmpeg command
    uuid,         \* randomUUID results handed out so far
    disk,         \* files present in os.tmpdir()
    outLen,       \* length of the merged file on disk
    size, offset, bytesRead, sessionId, fd,     \* dropboxUpload's locals
    calls,        \* outbound network calls, in the order they were issued
    responses,    \* responses sent on res
    allocated,    \* history: every name tmpFile() returned
    unlinks,      \* history: every fs.unlinkSync attempted
    thrown,       \* history: the errors raised, first first
    failedStage,  \* history: the stage that raised
    provided,     \* history: the metadata the provider answered
    settled,      \* history: the outcome of every call answered, in call order
    inv,          \* concurrent invocations: the locals of each handler
    fileOps       \* concurrent invocations, history: <<invocation, operation, file>>

vars ==
    << token, pc, req, stage, outFile, audioTmp, videoTmp, outTmp, cmd, uuid,
       disk, outLen, size, offset, bytesRead, sessionId, fd, calls, responses,
       allocated, unlinks, thrown, failedStage, provided, settled, inv, fileOps >>

handlerVars == << req, stage, outFile, audioTmp, videoTmp, outTmp, cmd >>

uploadVars == << size, offset, bytesRead, sessionId, fd >>

\* no file handle yet; closes counts the fs.closeSync calls on the handle
NoFd == [ open |-> FALSE, closes |-> 0 ]

\* fs.openSync(localPath, 'r')
OpenSync == [ open |-> TRUE, closes |-> 0 ]

\* fs.closeSync(fd)
CloseSync(h) == [ open |-> FALSE, closes |-> h.closes + 1 ]

\* the locals of a handler that has not started
IdleInv == [ pc |-> "idle", stage |-> "none", outFile |-> NoFile,
             audioTmp |-> NoFile, videoTmp |-> NoFile, outTmp |-> NoFile ]

NoCmd == [ inputs |-> <<>>, outputOptions |-> <<>>, videoCodec |-> NoValue,
           audioCodec |-> NoValue, audioBitrate |-> NoValue, output |-> NoFile ]

Init ==
    /\ token \in BOOLEAN
    /\ pc = "idle"
    /\ req = NoBody
    /\ stage = "none"
    /\ outFile = NoFile
    /\ audioTmp = NoFile
    /\ videoTmp = NoFile
    /\ outTmp = NoFile
    /\ cmd = NoCmd
    /\ uuid = 0
    /\ disk = {}
    /\ outLen = 0
    /\ size = 0
    /\ offset = 0
    /\ bytesRead = 0
    /\ sessionId = NoValue
    /\ fd = NoFd
    /\ calls = <<>>
    /\ responses = <<>>
    /\ allocated = {}
    /\ unlinks = <<>>
    /\ thrown = <<>>
    /\ failedStage = "none"
    /\ provided = <<>>
    /\ settled = <<>>
    /\ inv = [ i \in 1..NumInv |-> IdleInv ]
    /\ fileOps = {}

(***************************************************************************)
(* Network calls                                                           *)
(***************************************************************************)
NoArgs == [ path |-> NoValue, mode |-> NoValue, autorename |-> FALSE, mute |-> FALSE ]

Call(kind, target, sid, off, payload, commit) ==
    [ kind |-> kind, target |-> target, session_id |-> sid, offset |-> off,
      payload |-> payload, commit |-> commit ]

(***************************************************************************)
(* Helpers of the handler                                                  *)
(***************************************************************************)
\* faulty variant: the credential check never rejects
CredentialAlwaysConfigured(tok) == TRUE

\* if (!DROPBOX_TOKEN)
CredentialConfigured(tok) == tok

\* faulty variant: the two asset checks are left out
ValidateOutPathOnly(b) ==
    IF Falsy(b.out_path) THEN "Missing out_path (Dropbox destination path)"
    ELSE "ok"

\* faulty variant: the out_path check is left out
ValidateAssetsOnly(b) ==
    IF Falsy(b.audio_url) /\ Falsy(b.audio_path) THEN "Provide audio_url or audio_path"
    ELSE IF Falsy(b.video_url) /\ Falsy(b.video_path) THEN "Provide video_url or video_path"
    ELSE "ok"

\* the three validation returns, in source order; "ok" when none is taken
Validate(b) ==
    IF Falsy(b.out_path) THEN "Missing out_path (Dropbox destination path)"
    ELSE IF Falsy(b.audio_url) /\ Falsy(b.audio_path) THEN "Provide audio_url or audio_path"
    ELSE IF Falsy(b.video_url) /\ Falsy(b.video_path) THEN "Provide video_url or video_path"
    ELSE "ok"

\* res.status(400).json({ error })
ClientError(msg) == [ status |-> 400, body |-> [ error |-> msg ] ]

\* faulty variant: the handler answers a fixed text instead of err.message
CatchHandlerGeneric(msg) == [ status |-> 500, body |-> [ error |-> "Internal Server Error" ] ]

\* catch (err) { ... res.status(500).json({ error: err.message }) }
CatchHandler(msg) == [ status |-> 500, body |-> [ error |-> msg ] ]

\* Math.round(ms / 1000) for ms >= 0
RoundSec(ms) == (ms + 500) \div 1000

\* res.json({ ok: true, out_path, uploaded, elapsed_sec })
SuccessResponse(out_path, uploaded, ms) ==
    [ status |-> 200,
      body |-> [ ok |-> TRUE, out_path |-> out_path, uploaded |-> uploaded,
                 elapsed_sec |-> RoundSec(ms) ] ]

\* faulty variant: a fixed name in place of the random one
tmpFileFixedName(n, suffix) == <<1, suffix>>

\* path.join(os.tmpdir(), `${randomUUID()}${suffix}`)
tmpFile(n, suffix) == <<n + 1, suffix>>

\* faulty variant: the catch block only logs and sends nothing
ThrowUnanswered(msg, stg) ==
    /\ thrown' = Append(thrown, msg)
    /\ failedStage' = stg
    /\ responses' = responses
    /\ pc' = "done"

\* the throw of an await inside the try block reaches the catch handler
Throw(msg, stg) ==
    /\ thrown' = Append(thrown, msg)
    /\ failedStage' = stg
    /\ responses' = Append(responses, CatchHandler(msg))
    /\ pc' = "done"

\* the position of the first file of fs whose unlink fails
FirstFailing(fs, failed) ==
    CHOOSE k \in 1..Len(fs) : fs[k] \in failed /\ \A j \in 1..(k - 1) : fs[j] \notin failed

\* faulty variant: unlinkSync is not guarded, its error ends the loop and
\* reaches the catch block
CleanupAndRespondUnguarded(uploaded) ==
    \E failed \in SUBSET {audioTmp, videoTmp, outTmp}, ms \in ElapsedMs :
        LET fs == <<audioTmp, videoTmp, outTmp>>
        IN  IF failed = {}
            THEN /\ unlinks' = unlinks \o fs
                 /\ disk' = disk \ {audioTmp, videoTmp, outTmp}
                 /\ responses' = Append(responses,
                                        SuccessResponse(req.out_path, uploaded, ms))
                 /\ pc' = "done"
            ELSE /\ unlinks' = unlinks \o SubSeq(fs, 1, FirstFailing(fs, failed))
                 /\ disk' = disk \ { fs[j] : j \in 1..(FirstFailing(fs, failed) - 1) }
                 /\ responses' = Append(responses,
                                        CatchHandler("EPERM: operation not permitted, unlink"))
                 /\ pc' = "done"

\* the cleanup loop over [audioTmp, videoTmp, outTmp] and the success
\* response; failed is the set of files whose unlinkSync threw
CleanupAndRespond(uploaded) ==
    \E failed \in SUBSET {audioTmp, videoTmp, outTmp}, ms \in ElapsedMs :
        /\ unlinks' = unlinks \o <<audioTmp, videoTmp, outTmp>>
        /\ disk' = disk \ ({audioTmp, videoTmp, outTmp} \ failed)
        /\ responses' = Append(responses, SuccessResponse(req.out_path, uploaded, ms))
        /\ pc' = "done"

(***************************************************************************)
(* app.post('/merge'): entry, credential check and validation              *)
(***************************************************************************)
PostMerge(body) ==
    /\ pc = "idle"
    /\ req' = body
    /\ IF ~CredentialConfigured(token)
       THEN /\ responses' = Append(responses,
                   ClientError("Server missing DROPBOX_ACCESS_TOKEN env var"))
            /\ pc' = "done"
            /\ stage' = stage
       ELSE /\ IF Validate(body) # "ok"
               THEN /\ responses' = Append(responses, ClientError(Validate(body)))
                    /\ pc' = "done"
                    /\ stage' = stage
               ELSE /\ pc' = "download"
                    /\ stage' = "audio"
                    /\ responses' = responses
    /\ UNCHANGED << token, inv, fileOps, settled, outFile, audioTmp, videoTmp, outTmp, cmd, uuid, disk,
                    outLen, uploadVars, calls, allocated, unlinks, thrown,
                    failedStage, provided >>

(***************************************************************************)
(* downloadToTemp                                                          *)
(***************************************************************************)
StageUrl == IF stage = "audio" THEN req.audio_url ELSE req.video_url

StagePath == IF stage = "audio" THEN req.audio_path ELSE req.video_path

StageExt == IF stage = "audio" THEN ".mp3" ELSE ".mp4"

\* lines 79-84: normalise the link, allocate outFile, issue the GET
StartGet(directUrl) ==
    LET u == IF isDropboxSharedLink(directUrl) THEN toDirectDownload(directUrl)
             ELSE directUrl
    IN  /\ outFile' = tmpFile(uuid, StageExt)
        /\ uuid' = uuid + 1
        /\ allocated' = allocated \cup {tmpFile(uuid, StageExt)}
        /\ calls' = Append(calls, Call("download", u, NoValue, 0, <<0, 0>>, NoArgs))
        /\ pc' = "get"

\* lines 74-84, up to the first await
DownloadToTemp ==
    /\ pc = "download"
    /\ IF ~Falsy(StageUrl)
       THEN /\ StartGet(StageUrl)
            /\ UNCHANGED << responses, thrown, failedStage >>
       ELSE IF ~Falsy(StagePath)
       THEN IF ~CredentialConfigured(token)
            THEN /\ Throw("Missing DROPBOX_ACCESS_TOKEN env var", stage)
                 /\ UNCHANGED << outFile, uuid, allocated, calls >>
            ELSE /\ calls' = Append(calls,
                        Call("get_temporary_link", StagePath, NoValue, 0, <<0, 0>>, NoArgs))
                 /\ pc' = "link"
                 /\ UNCHANGED << outFile, uuid, allocated, responses, thrown, failedStage >>
       ELSE /\ Throw("Provide either url or dropboxPath", stage)
            /\ UNCHANGED << outFile, uuid, allocated, calls >>
    /\ UNCHANGED << token, inv, fileOps, settled, req, stage, audioTmp, videoTmp, outTmp, cmd, disk, outLen,
                    uploadVars, unlinks, provided >>

\* get_temporary_link answered: resp.data.link
TemporaryLinkOk ==
    /\ pc = "link"
    /\ settled' = Append(settled, "ok")
    /\ StartGet(TempLink(StagePath))
    /\ UNCHANGED << token, inv, fileOps, req, stage, audioTmp, videoTmp, outTmp, cmd, disk, outLen,
                    uploadVars, responses, unlinks, thrown, failedStage, provided >>

TemporaryLinkFail(msg) ==
    /\ pc = "link"
    /\ settled' = Append(settled, "fail")
    /\ Throw(msg, stage)
    /\ UNCHANGED << token, inv, fileOps, handlerVars, uuid, disk, outLen, uploadVars, calls,
                    allocated, unlinks, provided >>

\* axios.get answered; fs.createWriteStream(outFile) creates the file
GetOk ==
    /\ pc = "get"
    /\ settled' = Append(settled, "ok")
    /\ disk' = disk \cup {outFile}
    /\ pc' = "stream"
    /\ UNCHANGED << token, inv, fileOps, handlerVars, uuid, outLen, uploadVars, calls, responses,
                    allocated, unlinks, thrown, failedStage, provided >>

GetFail(msg) ==
    /\ pc = "get"
    /\ settled' = Append(settled, "fail")
    /\ Throw(msg, stage)
    /\ UNCHANGED << token, inv, fileOps, handlerVars, uuid, disk, outLen, uploadVars, calls,
                    allocated, unlinks, provided >>

\* pipeline(...) resolved: downloadToTemp returns outFile
PipelineOk ==
    /\ pc = "stream"
    /\ IF stage = "audio"
       THEN /\ audioTmp' = outFile
            /\ stage' = "video"
            /\ pc' = "download"
            /\ videoTmp' = videoTmp
       ELSE /\ videoTmp' = outFile
            /\ stage' = "merge"
            /\ pc' = "build"
            /\ audioTmp' = audioTmp
    /\ UNCHANGED << token, inv, fileOps, settled, req, outFile, outTmp, cmd, uuid, disk, outLen, uploadVars,
                    calls, responses, allocated, unlinks, thrown, failedStage, provided >>

\* pipeline(...) rejected: the partly written file stays where it is
PipelineFail(msg) ==
    /\ pc = "stream"
    /\ Throw(msg, stage)
    /\ UNCHANGED << token, inv, fileOps, settled, handlerVars, uuid, disk, outLen, uploadVars, calls,
                    allocated, unlinks, provided >>

(***************************************************************************)
(* The ffmpeg command                                                      *)
(***************************************************************************)
\* cmd.input(f): a new input, which becomes the current input
AddInput(c, f) ==
    [c EXCEPT !.inputs = Append(@, [ src |-> f, options |-> <<>> ])]

\* cmd.inputOptions(opts): the options go to the current (last added) input
AddInputOptions(c, opts) ==
    [c EXCEPT !.inputs[Len(c.inputs)].options = @ \o opts]

AddOutputOptions(c, opts) == [c EXCEPT !.outputOptions = @ \o opts]

\* lines 243-255
WithOffset(c, video, audio, offsetSec) ==
    IF offsetSec # 0
    THEN IF offsetSec > 0
         THEN AddInput(AddInputOptions(c, <<"-itsoffset", offsetSec>>), audio)
         ELSE AddInput(AddInputOptions(c, <<"-itsoffset", -offsetSec>>), video)
    ELSE c

\* lines 243-270 and .save(outTmp)
BuildCommand(video, audio, offsetSec, trim, reencode, bitrate, out) ==
    LET c0 == AddInput(AddInput(NoCmd, video), audio)
        c1 == WithOffset(c0, video, audio, offsetSec)
        c2 == IF trim THEN AddOutputOptions(c1, <<"-shortest">>) ELSE c1
        c3 == IF reencode
              THEN AddOutputOptions([c2 EXCEPT !.videoCodec = "libx264"],
                       <<"-preset", "veryfast", "-movflags", "+faststart">>)
              ELSE AddOutputOptions(c2, <<"-c:v", "copy">>)
    IN  [c3 EXCEPT !.audioCodec = "aac", !.audioBitrate = bitrate, !.output = out]

\* lines 240-285, up to the await of the ffmpeg promise
RunFfmpeg ==
    /\ pc = "build"
    /\ outTmp' = tmpFile(uuid, ".mp4")
    /\ uuid' = uuid + 1
    /\ allocated' = allocated \cup {tmpFile(uuid, ".mp4")}
    /\ cmd' = BuildCommand(videoTmp, audioTmp, req.audio_offset_sec, TRUE, FALSE,
                           "192k", tmpFile(uuid, ".mp4"))
    /\ pc' = "ffmpeg"
    /\ UNCHANGED << token, inv, fileOps, settled, req, stage, outFile, audioTmp, videoTmp, disk, outLen,
                    uploadVars, calls, responses, unlinks, thrown, failedStage,
                    provided >>

(***************************************************************************)
(* dropboxUpload                                                           *)
(***************************************************************************)
\* faulty variant: < in place of <=
SingleShotStrict(sz) == sz < UPLOAD_LIMIT

\* if (size <= 150 * 1024 * 1024)
SingleShot(sz) == sz <= UPLOAD_LIMIT

\* { path, mode: 'overwrite', autorename: false, mute: false }
CommitArgs(dest) ==
    [ path |-> dest, mode |-> "overwrite", autorename |-> FALSE, mute |-> FALSE ]

\* fs.readFileSync(localPath): the whole file
ReadFile(len) == <<0, len>>

\* Math.min(CHUNK, size - offset)
ToRead(off, sz) == Min(CHUNK, sz - off)

\* fs.readSync(fd, buffer, 0, toRead, offset): the bytes actually read
ReadSync(off, toRead, len) == Min(toRead, Max(0, len - off))

\* faulty variant: > in place of >=
IsLastStrict(off, br, sz) == off + br > sz

\* offset + bytesRead >= size
IsLast(off, br, sz) == off + br >= sz

\* faulty variant: the whole buffer is sent instead of its first bytesRead bytes
ChunkPayloadWholeBuffer(off, br) == <<off, off + CHUNK>>

\* buffer.subarray(0, bytesRead), filled from position off of the file
ChunkPayload(off, br) == <<off, off + br>>

\* faulty variant: the cursor is not moved on with the bytes sent
CursorAtStart(sid, off) == [ session_id |-> sid, offset |-> 0 ]

\* cursor: { session_id: sessionId, offset }
Cursor(sid, off) == [ session_id |-> sid, offset |-> off ]

\* faulty variant: the offset moves on by a whole chunk whatever was read
AdvanceByChunk(off, br) == off + CHUNK

\* offset += bytesRead
Advance(off, br) == off + br

\* lines 92-135, up to the first await of dropboxUpload
StartUpload(sz) ==
    /\ size' = sz
    /\ IF SingleShot(sz)
       THEN /\ calls' = Append(calls, Call("upload", NoValue, NoValue, 0,
                                ReadFile(sz), CommitArgs(req.out_path)))
            /\ pc' = "upload"
       ELSE /\ calls' = Append(calls, Call("session_start", NoValue, NoValue, 0,
                                <<0, 0>>, NoArgs))
            /\ pc' = "start"

\* one pass of the while body, lines 142-179, up to its await
SendChunk(sid, off) ==
    LET br == ReadSync(off, ToRead(off, size), outLen)
    IN  /\ bytesRead' = br
        /\ IF ~IsLast(off, br, size)
           THEN /\ calls' = Append(calls,
                        Call("append", NoValue, Cursor(sid, off).session_id,
                             Cursor(sid, off).offset, ChunkPayload(off, br), NoArgs))
                /\ pc' = "append"
           ELSE /\ calls' = Append(calls,
                        Call("finish", NoValue, Cursor(sid, off).session_id,
                             Cursor(sid, off).offset, ChunkPayload(off, br),
                             CommitArgs(req.out_path)))
                /\ pc' = "finish"

\* return { path_display: dropboxDestPath, size }
ChunkedResult(dest, sz) == [ path_display |-> dest, size |-> sz ]

\* the 'end' event: the promise resolves and dropboxUpload starts
FfmpegEnd(sz) ==
    /\ pc = "ffmpeg"
    /\ disk' = disk \cup {outTmp}
    /\ outLen' = sz
    /\ stage' = "upload"
    /\ StartUpload(sz)
    /\ UNCHANGED << token, inv, fileOps, settled, req, outFile, audioTmp, videoTmp, outTmp, cmd, uuid,
                    offset, bytesRead, sessionId, fd, responses, allocated, unlinks,
                    thrown, failedStage, provided >>

\* the 'error' event: reject(err); the engine may have begun its output file
FfmpegError(msg, partial) ==
    /\ pc = "ffmpeg"
    /\ disk' = IF partial THEN disk \cup {outTmp} ELSE disk
    /\ Throw(msg, stage)
    /\ UNCHANGED << token, inv, fileOps, settled, handlerVars, uuid, outLen, uploadVars, calls, allocated,
                    unlinks, provided >>

\* files/upload answered: return resp.data, then lines 290-301
UploadOk(meta) ==
    /\ pc = "upload"
    /\ settled' = Append(settled, "ok")
    /\ provided' = Append(provided, meta)
    /\ CleanupAndRespond(meta)
    /\ UNCHANGED << token, inv, fileOps, handlerVars, uuid, outLen, uploadVars, calls, allocated,
                    thrown, failedStage >>

UploadFail(msg) ==
    /\ pc = "upload"
    /\ settled' = Append(settled, "fail")
    /\ Throw(msg, stage)
    /\ UNCHANGED << token, inv, fileOps, handlerVars, uuid, disk, outLen, uploadVars, calls,
                    allocated, unlinks, provided >>

\* upload_session/start answered: lines 136-139 and the first pass of the loop
SessionStartOk(sid) ==
    /\ pc = "start"
    /\ settled' = Append(settled, "ok")
    /\ sessionId' = sid
    /\ fd' = OpenSync
    /\ offset' = 0
    /\ SendChunk(sid, 0)
    /\ UNCHANGED << token, inv, fileOps, handlerVars, uuid, disk, outLen, size, responses,
                    allocated, unlinks, thrown, failedStage, provided >>

SessionStartFail(msg) ==
    /\ pc = "start"
    /\ settled' = Append(settled, "fail")
    /\ Throw(msg, stage)
    /\ UNCHANGED << token, inv, fileOps, handlerVars, uuid, disk, outLen, uploadVars, calls,
                    allocated, unlinks, provided >>

\* offset += bytesRead and the loop test; on exit the finally block, the
\* return of dropboxUpload and lines 290-301
AfterChunk(newOffset) ==
    /\ offset' = newOffset
    /\ IF newOffset < size
       THEN /\ SendChunk(sessionId, newOffset)
            /\ UNCHANGED << fd, disk, unlinks, responses >>
       ELSE /\ fd' = CloseSync(fd)
            /\ CleanupAndRespond(ChunkedResult(req.out_path, size))
            /\ UNCHANGED << bytesRead, calls >>

\* upload_session/append_v2 answered
AppendOk ==
    /\ pc = "append"
    /\ settled' = Append(settled, "ok")
    /\ AfterChunk(Advance(offset, bytesRead))
    /\ UNCHANGED << token, inv, fileOps, handlerVars, uuid, outLen, size, sessionId, allocated,
                    thrown, failedStage, provided >>

\* upload_session/finish answered; its resp is not kept
FinishOk(meta) ==
    /\ pc = "finish"
    /\ settled' = Append(settled, "ok")
    /\ provided' = Append(provided, meta)
    /\ AfterChunk(Advance(offset, bytesRead))
    /\ UNCHANGED << token, inv, fileOps, handlerVars, uuid, outLen, size, sessionId, allocated,
                    thrown, failedStage >>

\* faulty variant: the rejection is swallowed and the loop goes on
ChunkFailIgnored(msg) ==
    /\ pc \in {"append", "finish"}
    /\ settled' = Append(settled, "fail")
    /\ AfterChunk(Advance(offset, bytesRead))
    /\ UNCHANGED << token, inv, fileOps, handlerVars, uuid, outLen, size, sessionId, allocated,
                    thrown, failedStage, provided >>

\* faulty variant: the handle is not closed when a call is rejected
ChunkFailNoFinally(msg) ==
    /\ pc \in {"append", "finish"}
    /\ settled' = Append(settled, "fail")
    /\ Throw(msg, stage)
    /\ UNCHANGED << token, inv, fileOps, handlerVars, uuid, disk, outLen, uploadVars, calls,
                    allocated, unlinks, provided >>

\* an append or the finish rejected: finally { fs.closeSync(fd) }, then the catch
ChunkFail(msg) ==
    /\ pc \in {"append", "finish"}
    /\ settled' = Append(settled, "fail")
    /\ fd' = CloseSync(fd)
    /\ Throw(msg, stage)
    /\ UNCHANGED << token, inv, fileOps, handlerVars, uuid, disk, outLen, size, offset, bytesRead,
                    sessionId, calls, allocated, unlinks, provided >>

\* the start or an append answered and the fs.readSync of the next pass
\* throws: finally { fs.closeSync(fd) }, then the catch
ReadFail(sid, msg) ==
    /\ pc \in {"start", "append"}
    /\ settled' = Append(settled, "ok")
    /\ IF pc = "start"
       THEN /\ sessionId' = sid
            /\ offset' = 0
            /\ fd' = CloseSync(OpenSync)
       ELSE /\ Advance(offset, bytesRead) < size
            /\ sessionId' = sessionId
            /\ offset' = Advance(offset, bytesRead)
            /\ fd' = CloseSync(fd)
    /\ Throw(msg, stage)
    /\ UNCHANGED << token, inv, fileOps, handlerVars, uuid, disk, outLen, size, bytesRead, calls,
                    allocated, unlinks, provided >>

Next ==
    \/ \E b \in Bodies : PostMerge(b)
    \/ DownloadToTemp
    \/ TemporaryLinkOk
    \/ \E m \in NetErrors : TemporaryLinkFail(m)
    \/ GetOk
    \/ \E m \in NetErrors : GetFail(m)
    \/ PipelineOk
    \/ \E m \in NetErrors : PipelineFail(m)
    \/ RunFfmpeg
    \/ \E sz \in Sizes : FfmpegEnd(sz)
    \/ \E m \in FfmpegErrors, partial \in BOOLEAN : FfmpegError(m, partial)
    \/ \E meta \in ProviderMetas(req.out_path, size) : UploadOk(meta)
    \/ \E m \in NetErrors : UploadFail(m)
    \/ \E sid \in SessionIds : SessionStartOk(sid)
    \/ \E m \in NetErrors : SessionStartFail(m)
    \/ AppendOk
    \/ \E meta \in ProviderMetas(req.out_path, size) : FinishOk(meta)
    \/ \E m \in NetErrors : ChunkFail(m)
    \/ \E sid \in SessionIds, m \in FsErrors : ReadFail(sid, m)

\* one invocation alone
Spec == Init /\ [][Next]_vars

(***************************************************************************)
(* The merged file is cut while dropboxUpload is suspended: fs.readSync    *)
(* then returns fewer bytes than asked for, or none.                       *)
(***************************************************************************)
\* the lengths the file may be cut to
CutLengths == {0, 1, 2 * CHUNK + 5}

\* the request followed under a cut file
CutBodies ==
    { [ audio_url |-> PlainUrl, audio_path |-> NoValue, video_url |-> NoValue,
        video_path |-> "/b.mp4", out_path |-> "/out.mp4", audio_offset_sec |-> 0 ] }

\* something outside the process cuts the file after fs.statSync read its size
TruncateFile(len) ==
    /\ pc \in {"start", "append"}
    /\ outLen = size
    /\ len < outLen
    /\ outLen' = len
    /\ UNCHANGED << token, inv, fileOps, settled, pc, handlerVars, uuid, disk, uploadVars,
                    calls, responses, allocated, unlinks, thrown, failedStage, provided >>

NextTruncated ==
    \/ \E b \in CutBodies : PostMerge(b)
    \/ DownloadToTemp
    \/ TemporaryLinkOk
    \/ \E m \in NetErrors : TemporaryLinkFail(m)
    \/ GetOk
    \/ \E m \in NetErrors : GetFail(m)
    \/ PipelineOk
    \/ \E m \in NetErrors : PipelineFail(m)
    \/ RunFfmpeg
    \/ \E sz \in Sizes : FfmpegEnd(sz)
    \/ \E m \in FfmpegErrors, partial \in BOOLEAN : FfmpegError(m, partial)
    \/ \E meta \in ProviderMetas(req.out_path, size) : UploadOk(meta)
    \/ \E m \in NetErrors : UploadFail(m)
    \/ \E sid \in SessionIds : SessionStartOk(sid)
    \/ \E m \in NetErrors : SessionStartFail(m)
    \/ Len(calls) < MaxCalls /\ AppendOk
    \/ \E meta \in ProviderMetas(req.out_path, size) : FinishOk(meta)
    \/ \E m \in NetErrors : ChunkFail(m)
    \/ \E sid \in SessionIds, m \in FsErrors : ReadFail(sid, m)
    \/ \E len \in CutLengths : TruncateFile(len)

\* one invocation whose merged file may be cut during the upload
SpecTruncated == Init /\ [][NextTruncated]_vars

(***************************************************************************)
(* Concurrent invocations: NumInv handlers run on the one event loop and   *)
(* share os.tmpdir() and the source of random names.  Each action is the   *)
(* synchronous code of one handler between two awaits, reduced to what it  *)
(* does to staged files: an await that touches no file (the temporary      *)
(* link of a path input) is folded into the step before it, and the        *)
(* deletions succeed (a failing fs.unlinkSync is followed in Spec).        *)
(***************************************************************************)
soloVars ==
    << pc, req, stage, outFile, audioTmp, videoTmp, outTmp, cmd, outLen, size,
       offset, bytesRead, sessionId, fd, calls, responses, unlinks, thrown,
       failedStage, provided, settled >>

\* lines 203-237: the credential check and the validation; a valid request
\* runs on into downloadToTemp for the audio, lines 74-84: outFile =
\* tmpFile(extFallback) and the GET
InvEnter(i, valid) ==
    /\ inv[i].pc = "idle"
    /\ IF CredentialConfigured(token) /\ valid
       THEN /\ inv' = [inv EXCEPT ![i].outFile = tmpFile(uuid, ".mp3"),
                                  ![i].stage = "audio", ![i].pc = "get"]
            /\ allocated' = allocated \cup {tmpFile(uuid, ".mp3")}
            /\ uuid' = uuid + 1
       ELSE /\ inv' = [inv EXCEPT ![i].pc = "done"]
            /\ UNCHANGED << uuid, allocated >>
    /\ UNCHANGED << token, soloVars, disk, fileOps >>

\* line 85: fs.createWriteStream(outFile) and the stream into it
InvGetOk(i) ==
    /\ inv[i].pc = "get"
    /\ disk' = disk \cup {inv[i].outFile}
    /\ fileOps' = fileOps \cup {<<i, "write", inv[i].outFile>>}
    /\ inv' = [inv EXCEPT ![i].pc = "stream"]
    /\ UNCHANGED << token, soloVars, uuid, allocated >>

\* lines 86-87 and 228-237: downloadToTemp returns the audio's outFile and
\* the handler runs on into downloadToTemp for the video
InvPipelineOk(i) ==
    /\ inv[i].pc = "stream"
    /\ inv[i].stage = "audio"
    /\ inv' = [inv EXCEPT ![i].audioTmp = inv[i].outFile,
                          ![i].outFile = tmpFile(uuid, ".mp4"),
                          ![i].stage = "video", ![i].pc = "get"]
    /\ allocated' = allocated \cup {tmpFile(uuid, ".mp4")}
    /\ uuid' = uuid + 1
    /\ UNCHANGED << token, soloVars, disk, fileOps >>

\* lines 234-285: downloadToTemp returns the video's outFile; outTmp =
\* tmpFile('.mp4') and ffmpeg is started on the two inputs
InvRunFfmpeg(i) ==
    /\ inv[i].pc = "stream"
    /\ inv[i].stage = "video"
    /\ inv' = [inv EXCEPT ![i].videoTmp = inv[i].outFile,
                          ![i].outTmp = tmpFile(uuid, ".mp4"),
                          ![i].stage = "merge", ![i].pc = "ffmpeg"]
    /\ allocated' = allocated \cup {tmpFile(uuid, ".mp4")}
    /\ uuid' = uuid + 1
    /\ fileOps' = fileOps \cup {<<i, "read", inv[i].outFile>>,
                                 <<i, "read", inv[i].audioTmp>>}
    /\ UNCHANGED << token, soloVars, disk >>

\* the 'end' event, then dropboxUpload reads outTmp (lines 92-143)
InvFfmpegEnd(i) ==
    /\ inv[i].pc = "ffmpeg"
    /\ disk' = disk \cup {inv[i].outTmp}
    /\ fileOps' = fileOps \cup {<<i, "write", inv[i].outTmp>>,
                                 <<i, "read", inv[i].outTmp>>}
    /\ inv' = [inv EXCEPT ![i].stage = "upload", ![i].pc = "upload"]
    /\ UNCHANGED << token, soloVars, uuid, allocated >>

\* dropboxUpload returned: the cleanup loop, lines 290-293, and the response
InvUploadOk(i) ==
    /\ inv[i].pc = "upload"
    /\ disk' = disk \ {inv[i].audioTmp, inv[i].videoTmp, inv[i].outTmp}
    /\ fileOps' = fileOps \cup {<<i, "delete", inv[i].audioTmp>>,
                                 <<i, "delete", inv[i].videoTmp>>,
                                 <<i, "delete", inv[i].outTmp>>}
    /\ inv' = [inv EXCEPT ![i].pc = "done"]
    /\ UNCHANGED << token, soloVars, uuid, allocated >>

\* an await rejects: the catch block, lines 302-305, touches no file; a
\* failing merge may have begun its output file
InvFail(i, partial) ==
    /\ inv[i].pc \in {"get", "stream", "ffmpeg", "upload"}
    /\ IF inv[i].pc = "ffmpeg" /\ partial
       THEN /\ disk' = disk \cup {inv[i].outTmp}
            /\ fileOps' = fileOps \cup {<<i, "write", inv[i].outTmp>>}
       ELSE UNCHANGED << disk, fileOps >>
    /\ inv' = [inv EXCEPT ![i].pc = "done"]
    /\ UNCHANGED << token, soloVars, uuid, allocated >>

NextConcurrent ==
    \/ \E i \in 1..NumInv, valid \in BOOLEAN : InvEnter(i, valid)
    \/ \E i \in 1..NumInv : InvGetOk(i)
    \/ \E i \in 1..NumInv : InvPipelineOk(i)
    \/ \E i \in 1..NumInv : InvRunFfmpeg(i)
    \/ \E i \in 1..NumInv : InvFfmpegEnd(i)
    \/ \E i \in 1..NumInv : InvUploadOk(i)
    \/ \E i \in 1..NumInv, partial \in BOOLEAN : InvFail(i, partial)

\* NumInv invocations interleaved at their awaits
SpecConcurrent == Init /\ [][NextConcurrent]_vars

(***************************************************************************)
(* Vocabulary of the properties                                            *)
(***************************************************************************)
\* number of outbound calls of one kind
Count(k) == Cardinality({ i \in 1..Len(calls) : calls[i].kind = k })

\* number of fs.unlinkSync attempts on one file
Attempts(f) == Cardinality({ i \in 1..Len(unlinks) : unlinks[i] = f })

Responded == Len(responses) > 0

Success == Responded /\ responses[1].status = 200

Rejected == pc = "done" /\ Len(responses) = 1 /\ responses[1].status = 400

\* nothing has touched the network or the staging directory
NoIO == calls = <<>> /\ allocated = {} /\ disk = {} /\ thrown = <<>>

MissingAsset(b) ==
    \/ Falsy(b.audio_url) /\ Falsy(b.audio_path)
    \/ Falsy(b.video_url) /\ Falsy(b.video_path)

ConflictingAsset(b) ==
    \/ ~Falsy(b.audio_url) /\ ~Falsy(b.audio_path)
    \/ ~Falsy(b.video_url) /\ ~Falsy(b.video_path)

CeilDiv(a, b) == (a + b - 1) \div b

\* bytes as a sequence of file ranges; adjoining ranges are one range
Cat(content, r) ==
    IF r[1] = r[2] THEN content
    ELSE IF content # <<>> /\ content[Len(content)][2] = r[1]
         THEN [content EXCEPT ![Len(content)] = <<content[Len(content)][1], r[2]>>]
         ELSE Append(content, r)

\* the bytes carried by the first n calls of the session, in call order
RECURSIVE SessionContent(_)
SessionContent(n) ==
    IF n = 0 THEN <<>>
    ELSE IF calls[n].kind \in {"append", "finish"}
         THEN Cat(SessionContent(n - 1), calls[n].payload)
         ELSE SessionContent(n - 1)

\* the number of bytes carried by the first n calls of the session
RECURSIVE SessionBytes(_)
SessionBytes(n) ==
    IF n = 0 THEN 0
    ELSE IF calls[n].kind \in {"append", "finish"}
         THEN SessionBytes(n - 1) + calls[n].payload[2] - calls[n].payload[1]
         ELSE SessionBytes(n - 1)

\* the object the destination holds once the committing call was accepted
RemoteObject ==
    LET ci == CHOOSE i \in 1..Len(calls) : calls[i].kind \in {"upload", "finish"}
    IN  [ content |-> IF calls[ci].kind = "upload"
                      THEN Cat(<<>>, calls[ci].payload)
                      ELSE SessionContent(Len(calls)),
          commit  |-> calls[ci].commit ]

(***************************************************************************)
(* C1: when the response is sent, deletion has been attempted exactly once *)
(* for every staged file of the invocation that exists, and never twice    *)
(* for any, on the failure paths as on the success path.                   *)
(***************************************************************************)
C1_CleanupOnEveryPath ==
    Responded =>
        \A f \in allocated :
            /\ Attempts(f) <= 1
            /\ f \in disk => Attempts(f) = 1

(***************************************************************************)
(* C2: a request without audio_url and audio_path, or without video_url    *)
(* and video_path, is answered with a client error before any network call *)
(* is made, before any staged file is allocated, and nothing is raised.     *)
(***************************************************************************)
C2_MissingAssetRejectedBeforeIO ==
    (pc # "idle" /\ MissingAsset(req)) => (Rejected /\ NoIO)

C2_Witness ==
    /\ token
    /\ ~Falsy(req.out_path)
    /\ MissingAsset(req)
    /\ Rejected
    /\ responses[1].body.error \in
           {"Provide audio_url or audio_path", "Provide video_url or video_path"}

(***************************************************************************)
(* C3: a request that sets both the url and the path of an asset is        *)
(* rejected as a validation error at entry, before any network or disk     *)
(* activity.                                                               *)
(***************************************************************************)
C3_ConflictingAssetRejected ==
    (pc # "idle" /\ ConflictingAsset(req)) => (Rejected /\ NoIO)

(***************************************************************************)
(* C4: a request without out_path is answered with a client error before   *)
(* any audio or video reference is resolved or fetched, whatever its other *)
(* fields are.                                                             *)
(***************************************************************************)
C4_MissingOutPathRejectedFirst ==
    (pc # "idle" /\ Falsy(req.out_path)) => (Rejected /\ NoIO)

C4_Witness ==
    /\ token
    /\ Falsy(req.out_path)
    /\ ~MissingAsset(req)
    /\ Rejected
    /\ responses[1].body.error = "Missing out_path (Dropbox destination path)"

(***************************************************************************)
(* C5: without a configured credential no outbound call is ever made, and  *)
(* every request is answered at once with the credential error.            *)
(***************************************************************************)
C5_NoCredentialNoNetwork ==
    ~token =>
        /\ calls = <<>>
        /\ pc # "idle" =>
              /\ Rejected
              /\ responses[1].body.error = "Server missing DROPBOX_ACCESS_TOKEN env var"
              /\ NoIO

C5_Witness ==
    /\ ~token
    /\ pc = "done"
    /\ ~Falsy(req.out_path)
    /\ ~MissingAsset(req)
    /\ Rejected

(***************************************************************************)
(* C6: when a stage fails, the response is the failure status with the     *)
(* message of the first error raised; nothing is raised after it, no later *)
(* stage is started, no call of the failing stage is issued twice, and a   *)
(* merge failure is followed by no upload call.                            *)
(***************************************************************************)
C6_PrimaryErrorSurfaced ==
    thrown # <<>> =>
        /\ Len(thrown) = 1
        /\ pc = "done"
        /\ responses = << [ status |-> 500, body |-> [ error |-> thrown[1] ] ] >>
        /\ stage = failedStage
        /\ failedStage = "audio" =>
              Count("get_temporary_link") <= 1 /\ Count("download") <= 1
        /\ failedStage \in {"audio", "video", "merge"} =>
              /\ Count("get_temporary_link") <= 2 /\ Count("download") <= 2
              /\ \A i \in 1..Len(calls) :
                     calls[i].kind \in {"get_temporary_link", "download"}
        /\ failedStage = "upload" =>
              /\ Count("upload") + Count("session_start") = 1
              /\ Count("finish") <= 1
              /\ \A i, j \in 1..Len(calls) :
                     (i < j /\ calls[i].kind = "append" /\ calls[j].kind \in {"append", "finish"})
                         => calls[i].offset < calls[j].offset

C6_Witness ==
    /\ failedStage = "merge"
    /\ Responded
    /\ responses[1].status = 500
    /\ responses[1].body.error \in FfmpegErrors
    /\ Count("download") = 2

(***************************************************************************)
(* C7: the upload path depends on the file size alone: up to and including *)
(* 150 MiB exactly one single-shot upload carrying the whole file with     *)
(* overwrite mode and no session call; above it no single-shot upload and  *)
(* the session protocol.                                                   *)
(***************************************************************************)
C7_UploadPathBySize ==
    stage = "upload" =>
        IF size <= 150 * 1024 * 1024
        THEN /\ Count("upload") = 1
             /\ Count("session_start") + Count("append") + Count("finish") = 0
             /\ \A i \in 1..Len(calls) : calls[i].kind = "upload" =>
                    /\ calls[i].payload = <<0, outLen>>
                    /\ calls[i].commit.path = req.out_path
                    /\ calls[i].commit.mode = "overwrite"
        ELSE /\ Count("upload") = 0
             /\ Count("session_start") = 1
             /\ Success => (Count("append") >= 1 /\ Count("finish") = 1)

C7_Witness ==
    /\ Success
    /\ size = 150 * 1024 * 1024
    /\ Count("upload") = 1

(***************************************************************************)
(* C8: a chunked upload of S bytes with chunk size C makes ceil(S/C) - 1   *)
(* append calls and one finish call carrying the remaining                 *)
(* S - (ceil(S/C) - 1) * C bytes; appends and finish together carry S.     *)
(***************************************************************************)
C8_ChunkAccounting ==
    (stage = "upload" /\ size > 150 * 1024 * 1024 /\ (Success \/ pc = "finish")) =>
        /\ Count("append") = CeilDiv(size, CHUNK) - 1
        /\ Count("finish") = 1
        /\ \A i \in 1..Len(calls) : calls[i].kind = "finish" =>
               calls[i].payload[2] - calls[i].payload[1]
                   = size - (CeilDiv(size, CHUNK) - 1) * CHUNK
        /\ SessionBytes(Len(calls)) = size

C8_Witness ==
    /\ Success
    /\ size > 150 * 1024 * 1024
    /\ size % CHUNK = 0
    /\ Count("append") = 18 + (size - 19 * CHUNK) \div CHUNK

(***************************************************************************)
(* C9: after a successful upload the destination holds the same object on  *)
(* both paths: the appends and the finish, concatenated in call order,     *)
(* carry the whole file, as the single-shot upload does, and the object is *)
(* committed to the requested path with overwrite, no autorename, unmuted. *)
(***************************************************************************)
C9_PathsEquivalent ==
    Success =>
        RemoteObject =
            [ content |-> Cat(<<>>, <<0, outLen>>),
              commit  |-> [ path |-> req.out_path, mode |-> "overwrite",
                            autorename |-> FALSE, mute |-> FALSE ] ]

C9_Witness ==
    /\ Success
    /\ size > 150 * 1024 * 1024
    /\ size % CHUNK # 0
    /\ Count("append") >= 19
    /\ Count("finish") = 1

(***************************************************************************)
(* C10: a successful response is { ok: true, out_path, uploaded,           *)
(* elapsed_sec } with the requested out_path, elapsed_sec >= 0 and         *)
(* uploaded the metadata the storage provider answered for the created     *)
(* object, on the single-shot path and on the chunked path.                *)
(***************************************************************************)
C10_SuccessResponse ==
    Success =>
        /\ responses[1].body.ok = TRUE
        /\ responses[1].body.out_path = req.out_path
        /\ responses[1].body.elapsed_sec >= 0
        /\ provided # <<>>
        /\ responses[1].body.uploaded = provided[Len(provided)]

\* the bytes carried by the append calls among the first n calls
RECURSIVE AppendBytes(_)
AppendBytes(n) ==
    IF n = 0 THEN 0
    ELSE IF calls[n].kind = "append"
         THEN AppendBytes(n - 1) + calls[n].payload[2] - calls[n].payload[1]
         ELSE AppendBytes(n - 1)

SessionKinds == {"session_start", "append", "finish"}

(***************************************************************************)
(* C11: a chunked upload issues start, append*, finish in this order with  *)
(* at most one call in flight: every append and the finish follow the      *)
(* answered start and answered appends only, carry the session id the      *)
(* start returned and, as cursor offset, the bytes carried by all earlier  *)
(* appends; there is one finish, it is the last call, no append follows.   *)
(***************************************************************************)
C11_SessionProtocolOrder ==
    /\ Len(calls) - Len(settled) \in {0, 1}
    /\ Count("finish") <= 1
    /\ (Success /\ size > 150 * 1024 * 1024) => Count("finish") = 1
    /\ \A i \in 1..Len(calls) : calls[i].kind \in {"append", "finish"} =>
          /\ \E j \in 1..(i - 1) :
                /\ calls[j].kind = "session_start"
                /\ settled[j] = "ok"
                /\ \A k \in (j + 1)..(i - 1) :
                       calls[k].kind = "append" /\ settled[k] = "ok"
          /\ sessionId \in SessionIds
          /\ calls[i].session_id = sessionId
          /\ calls[i].offset = AppendBytes(i - 1)
          /\ calls[i].kind = "finish" => i = Len(calls)

C11_Witness ==
    /\ Success
    /\ Count("append") = 19
    /\ calls[Len(calls)].kind = "finish"
    /\ calls[Len(calls)].offset = 19 * CHUNK
    /\ calls[Len(calls) - 1].offset = 18 * CHUNK

(***************************************************************************)
(* C12: when the session start, an append or the finish is rejected, no    *)
(* further call is issued, the rejected call was not issued before, and    *)
(* the pipeline answers with a failure.                                    *)
(***************************************************************************)
C12_ChunkFailureAborts ==
    \A i \in 1..Len(settled) :
        (settled[i] = "fail" /\ calls[i].kind \in SessionKinds) =>
            /\ i = Len(calls)
            /\ \A j \in 1..(i - 1) : calls[j] # calls[i]
            /\ pc = "done"
            /\ thrown # <<>>
            /\ Len(responses) = 1
            /\ responses[1].status = 500

C12_Witness ==
    /\ pc = "done"
    /\ Len(calls) > 0
    /\ Len(settled) = Len(calls)
    /\ settled[Len(settled)] = "fail"
    /\ calls[Len(calls)].kind = "append"
    /\ calls[Len(calls)].offset = 2 * CHUNK
    /\ responses[1].status = 500

\* the stages of one invocation follow each other, each after the terminal
\* success event of the one before
StageOrder ==
    /\ stage \in {"none", "audio", "video", "merge", "upload"}
    /\ stage = "none" => (calls = <<>> /\ allocated = {})
    /\ stage = "audio" =>
          (audioTmp = NoFile /\ videoTmp = NoFile /\ Count("download") <= 1)
    /\ Count("download") = 2 => audioTmp # NoFile
    /\ stage = "video" => (audioTmp # NoFile /\ videoTmp = NoFile /\ cmd = NoCmd)
    /\ cmd # NoCmd =>
          /\ stage \in {"merge", "upload"}
          /\ audioTmp # NoFile /\ videoTmp # NoFile
          /\ Count("download") = 2 /\ Len(settled) >= 2
    /\ Count("upload") + Count("session_start") > 0 =>
          (stage = "upload" /\ cmd # NoCmd /\ outTmp # NoFile)
    /\ stage # "upload" => (outTmp \notin disk \/ thrown # <<>>)
    /\ Success =>
          /\ stage = "upload"
          /\ Len(settled) = Len(calls)
          /\ settled[Len(settled)] = "ok"
          /\ calls[Len(calls)].kind \in {"upload", "append", "finish"}
          /\ unlinks = <<audioTmp, videoTmp, outTmp>>

(***************************************************************************)
(* C13: the stages run in the order Validating, FetchingAudio,             *)
(* FetchingVideo, Merging, Uploading, CleaningUp, Done, each after the     *)
(* terminal success event of the one before; a success response follows    *)
(* the upload and the cleanup; a failure at any stage goes to CleaningUp   *)
(* (deletion attempted for the staged files that exist) and then Failed.   *)
(***************************************************************************)
C13_StageOrderWithCleanup ==
    /\ StageOrder
    /\ (thrown # <<>> /\ Responded) =>
          \A f \in allocated : f \in disk => Attempts(f) >= 1

\* the inputs of the command that carry a time-offset directive
InputsWithOffset ==
    { i \in 1..Len(cmd.inputs) : cmd.inputs[i].options # <<>> }

(***************************************************************************)
(* C14: with audio_offset_sec = 0 the command declares the two inputs      *)
(* video, audio and no time-offset directive; with a positive value a      *)
(* third input, the audio again, carries the directive with that value;    *)
(* with a negative value a third input, the video again, carries it with   *)
(* the negated value; the first two inputs never carry a directive.        *)
(***************************************************************************)
C14_OffsetOnAddedInput ==
    cmd # NoCmd =>
        /\ cmd.inputs[1] = [ src |-> videoTmp, options |-> <<>> ]
        /\ cmd.inputs[2] = [ src |-> audioTmp, options |-> <<>> ]
        /\ req.audio_offset_sec = 0 => Len(cmd.inputs) = 2
        /\ req.audio_offset_sec > 0 =>
              /\ Len(cmd.inputs) = 3
              /\ cmd.inputs[3] = [ src |-> audioTmp,
                                   options |-> <<"-itsoffset", req.audio_offset_sec>> ]
        /\ req.audio_offset_sec < 0 =>
              /\ Len(cmd.inputs) = 3
              /\ cmd.inputs[3] = [ src |-> videoTmp,
                                   options |-> <<"-itsoffset", -req.audio_offset_sec>> ]

\* what the command built by the handler holds
CommandAsBuilt ==
    cmd # NoCmd =>
        /\ cmd.inputs[1] = [ src |-> videoTmp, options |-> <<>> ]
        /\ Len(cmd.inputs) = IF req.audio_offset_sec = 0 THEN 2 ELSE 3
        /\ req.audio_offset_sec = 0 => InputsWithOffset = {}
        /\ req.audio_offset_sec # 0 =>
              /\ InputsWithOffset = {2}
              /\ cmd.inputs[2].src = audioTmp
              /\ cmd.inputs[3].options = <<>>
              /\ cmd.inputs[3].src =
                     IF req.audio_offset_sec > 0 THEN audioTmp ELSE videoTmp

\* the staged files an invocation holds
Own(i) ==
    {inv[i].outFile, inv[i].audioTmp, inv[i].videoTmp, inv[i].outTmp} \ {NoFile}

\* the files an invocation has written and not tried to delete
Kept(i) ==
    { f \in allocated : <<i, "write", f>> \in fileOps /\ <<i, "delete", f>> \notin fileOps }

(***************************************************************************)
(* C15: under any interleaving of concurrent invocations each invocation   *)
(* reads, writes and deletes only staged files it allocated itself; names  *)
(* are unique per allocation; no invocation's cleanup or failure removes   *)
(* a staged file of another.                                               *)
(***************************************************************************)
C15_InvocationsIndependent ==
    /\ \A i, j \in 1..NumInv : i # j => Own(i) \cap Own(j) = {}
    /\ \A o \in fileOps : o[3] \in Own(o[1])
    /\ \A o1, o2 \in fileOps : o1[3] = o2[3] => o1[1] = o2[1]
    /\ \A i \in 1..NumInv : Kept(i) \subseteq disk

C15_Witness ==
    /\ inv[1].pc = "done"
    /\ <<1, "delete", inv[1].outTmp>> \in fileOps
    /\ inv[1].outTmp \notin disk
    /\ inv[2].pc = "upload"
    /\ {inv[2].audioTmp, inv[2].videoTmp, inv[2].outTmp} \subseteq disk
    /\ inv[2].audioTmp[1] < inv[1].outTmp[1]

\* what dropboxUpload returned to the handler
UploadResult ==
    IF Count("upload") = 1 THEN provided[1]
    ELSE [ path_display |-> req.out_path, size |-> size ]

(***************************************************************************)
(* C16: releasing the staged files never raises: whichever deletions fail, *)
(* deletion of all three staged files is attempted, in order, and the      *)
(* response is the one the upload determined.                              *)
(***************************************************************************)
C16_CleanupBestEffort ==
    unlinks # <<>> =>
        /\ unlinks = <<audioTmp, videoTmp, outTmp>>
        /\ thrown = <<>>
        /\ Success
        /\ Len(responses) = 1
        /\ responses[1].body.out_path = req.out_path
        /\ responses[1].body.uploaded = UploadResult

C16_Witness ==
    /\ Success
    /\ audioTmp \in disk
    /\ videoTmp \notin disk
    /\ outTmp \notin disk
    /\ unlinks = <<audioTmp, videoTmp, outTmp>>

(***************************************************************************)
(* C17: an invocation sends exactly one response on every path: none       *)
(* before its terminal event, one from then on, never two.                 *)
(***************************************************************************)
C17_ExactlyOneResponse ==
    /\ Len(responses) <= 1
    /\ pc = "done" <=> Len(responses) = 1
    /\ thrown # <<>> => Len(responses) = 1

C17_Witness ==
    /\ pc = "done"
    /\ Len(responses) = 1
    /\ responses[1].status = 500
    /\ failedStage = "video"
    /\ Count("download") = 2

\* a call of the chunk loop has just been answered and the loop went on
ChunkAnswered ==
    /\ pc \in {"append", "finish"}
    /\ settled' = Append(settled, "ok")

C18_OffsetInRange ==
    /\ 0 <= offset /\ offset <= size
    /\ 0 <= bytesRead /\ bytesRead <= CHUNK
    /\ (pc \in {"append", "finish"} /\ bytesRead = 0) => (pc = "append" /\ offset < size)
    /\ (Success /\ size > 150 * 1024 * 1024) =>
          /\ offset = size
          /\ \A i \in 1..Len(calls) : calls[i].kind \in {"append", "finish"} =>
                 calls[i].payload[2] - calls[i].payload[1] >= 1

C18_OffsetStep ==
    ChunkAnswered =>
        /\ offset' = offset + bytesRead
        /\ bytesRead >= 1 => (offset' > offset /\ size - offset' < size - offset)
        /\ (bytesRead = 0 /\ pc' # "done") =>
              (pc' = "append" /\ bytesRead' = 0 /\ offset' = offset /\ offset' < size)

(***************************************************************************)
(* C18: in the chunk loop 0 <= offset <= size; each answered append or     *)
(* finish moves the offset on by the bytes read, so with reads of at least *)
(* one byte the offset strictly increases and the loop ends with           *)
(* offset = size; once a read returns no byte before the end of the file   *)
(* the next pass reads none again at the same offset, and the loop never   *)
(* ends.                                                                   *)
(***************************************************************************)
C18_ChunkLoopProgress == [](C18_OffsetInRange) /\ [][C18_OffsetStep]_vars

C18_Witness ==
    /\ pc = "append"
    /\ bytesRead = 0
    /\ outLen < size
    /\ offset < size
    /\ Len(calls) >= 3
    /\ calls[Len(calls)].payload = <<offset, offset>>
    /\ calls[Len(calls) - 1].payload = <<offset, offset>>
    /\ calls[Len(calls) - 2].payload = <<offset, offset>>

\* the session start was answered, so fs.openSync ran
HandleOpened ==
    \E j \in 1..Len(settled) : calls[j].kind = "session_start" /\ settled[j] = "ok"

(***************************************************************************)
(* C19: the file handle of a chunked upload is open only while the chunk   *)
(* loop runs; when the upload has returned, or was aborted by a rejected   *)
(* append or finish or by a failing read, the handle has been closed       *)
(* exactly once.                                                           *)
(***************************************************************************)
C19_HandleClosedOnce ==
    /\ fd.closes <= 1
    /\ fd.open => (pc \in {"append", "finish"} /\ fd.closes = 0)
    /\ ~HandleOpened => fd = [ open |-> FALSE, closes |-> 0 ]
    /\ (HandleOpened /\ pc = "done") => fd = [ open |-> FALSE, closes |-> 1 ]

C19_Witness ==
    /\ pc = "done"
    /\ HandleOpened
    /\ Len(settled) = Len(calls)
    /\ settled[Len(settled)] = "fail"
    /\ calls[Len(calls)].kind = "finish"
    /\ fd = [ open |-> FALSE, closes |-> 1 ]

====
